---- MODULE Spec2Model ----
(***************************************************************************)
(* A model of browser-copilot: the message senders and the BaseAgent       *)
(* tools, the session servers (REST/SSE, gRPC, Telegram) with their relay  *)
(* loop, ConversationAgent.run_query and memory_summarizer,                *)
(* BrowserInteractionAgent.execute_browser_task, get_model and the         *)
(* configuration models.                                                   *)
(*                                                                         *)
(* Strings that the code inspects are sequences of one-character strings;  *)
(* fixed texts that the code only concatenates are kept as single tokens.  *)
(***************************************************************************)
EXTENDS Integers, Sequences, FiniteSets, TLC

\* ------------------------------------------------------------------------
\* Sequence helpers
\* ------------------------------------------------------------------------

IsPrefix(s, t) == Len(s) <= Len(t) /\ SubSeq(t, 1, Len(s)) = s

Range(s) == {s[i] : i \in 1..Len(s)}

\* All sequences over S of length 0..n
SeqUpTo(S, n) == UNION {[1..k -> S] : k \in 0..n}

RECURSIVE Concat(_)
\* the concatenation of a sequence of sequences
Concat(ss) == IF ss = <<>> THEN <<>> ELSE Head(ss) \o Concat(Tail(ss))

\* ------------------------------------------------------------------------
\* Message senders (GrpcMessageSender, SSEMessageSender,
\* TelegramMessageSender) and the BaseAgent tools built on them
\* ------------------------------------------------------------------------

\* Bounds of the sender specification
MaxSenderCalls == 2

QueueKinds == {"grpc", "sse"}
SenderKinds == QueueKinds \cup {"telegram"}

\* texts and image paths the agent hands to a sender
Texts == {<<"h", "i">>, <<"a", "_", "b">>}
Paths == {<<"/", "t", "/", "a", ".", "p">>, <<"b", ".", "p">>}

\* What the environment does to one call: whether the file exists, and which
\* of the external calls raise.
\*   existsRaises  os.path.exists(image_path)
\*   imageRaises   response_queue.put(image item) / bot.send_photo
\*   textRaises    response_queue.put(text item) / bot.send_message (MarkdownV2)
\*   plainRaises   bot.send_message (plain fallback)
Env == [exists : BOOLEAN, existsRaises : BOOLEAN, imageRaises : BOOLEAN,
        textRaises : BOOLEAN, plainRaises : BOOLEAN]

\* The failures the deployed program can meet: asyncio.Queue() is unbounded, so
\* put never raises; os.path.exists never raises for a str; the Telegram Bot
\* API calls may fail.
RealEnv(k) ==
    {e \in Env : /\ ~e.existsRaises
                 /\ k \in QueueKinds => (~e.imageRaises /\ ~e.textRaises /\ ~e.plainRaises)}

\* The outcome of a block of code: whether an exception left it, what it
\* delivered to the transport (queue items, Telegram messages), and how many
\* errors it logged.
Ok(d) == [raised |-> FALSE, delivered |-> d, errors |-> 0]
Raise == [raised |-> TRUE, delivered |-> <<>>, errors |-> 0]

\* an external call that delivers d unless it raises
External(d, raises) == IF raises THEN Raise ELSE Ok(d)

\* try: body / except Exception: logger.error(...); handler
TryExcept(body, handler) ==
    IF body.raised
    THEN [raised |-> handler.raised,
          delivered |-> body.delivered \o handler.delivered,
          errors |-> body.errors + 1 + handler.errors]
    ELSE body

RECURSIVE EscapeMarkdownV2(_)
\* re.sub: a backslash before every MarkdownV2 special character (the
\* backquote is written "BACKQUOTE")
EscapeChars == {"_", "*", "[", "]", "(", ")", "~", "BACKQUOTE", ">", "#", "+", "-",
                "=", "|", "{", "}", ".", "!"}
EscapeMarkdownV2(text) ==
    IF text = <<>> THEN <<>>
    ELSE (IF Head(text) \in EscapeChars THEN <<"\\", Head(text)>> ELSE <<Head(text)>>)
         \o EscapeMarkdownV2(Tail(text))

RECURSIVE Basename(_)
\* os.path.basename: what follows the last "/"
Basename(path) ==
    IF \A i \in 1..Len(path) : path[i] # "/" THEN path
    ELSE Basename(Tail(path))

TextItem(text) == [text |-> text]
ImageItem(path) ==
    [image |-> [file_path |-> path, description |-> <<"Image: ">> \o Basename(path)]]
NotFoundText(path) == <<"Image was generated but file not found: ">> \o path
ErrorText == <<"Error sending image: ">>

\* a Telegram message as the Bot API receives it
TelegramText(text, mode) == [chat_text |-> text, parse_mode |-> mode]
TelegramPhoto(path) == [chat_photo |-> path]

\* GrpcMessageSender.send_text / SSEMessageSender.send_text
QueueSendText(text, env) ==
    TryExcept(External(<<TextItem(text)>>, env.textRaises), Ok(<<>>))

\* (mutation of TelegramSendText: the plain-text fallback is not guarded)
TelegramSendTextUnguarded(text, env) ==
    TryExcept(External(<<TelegramText(EscapeMarkdownV2(text), "MarkdownV2")>>, env.textRaises),
              External(<<TelegramText(text, "None")>>, env.plainRaises))

\* TelegramMessageSender.send_text
TelegramSendText(text, env) ==
    TryExcept(External(<<TelegramText(EscapeMarkdownV2(text), "MarkdownV2")>>, env.textRaises),
              TryExcept(External(<<TelegramText(text, "None")>>, env.plainRaises), Ok(<<>>)))

SendText(k, text, env) ==
    IF k \in QueueKinds THEN QueueSendText(text, env) ELSE TelegramSendText(text, env)

\* (mutation of SendImageBody: a missing file is logged but nothing is sent)
SendImageBodySilent(k, path, env) ==
    IF env.existsRaises THEN Raise
    ELSE IF env.exists
         THEN External(IF k \in QueueKinds THEN <<ImageItem(path)>> ELSE <<TelegramPhoto(path)>>,
                       env.imageRaises)
         ELSE Ok(<<>>)

\* the body of send_image's try block
SendImageBody(k, path, env) ==
    IF env.existsRaises THEN Raise
    ELSE IF env.exists
         THEN External(IF k \in QueueKinds THEN <<ImageItem(path)>> ELSE <<TelegramPhoto(path)>>,
                       env.imageRaises)
         ELSE SendText(k, NotFoundText(path), env)

\* GrpcMessageSender.send_image / SSEMessageSender.send_image /
\* TelegramMessageSender.send_image
SendImage(k, path, env) ==
    TryExcept(SendImageBody(k, path, env), SendText(k, ErrorText, env))

\* BaseAgent tools: the status string returned to the agent run
ToolSendMessage(k, text, env) ==
    LET r == SendText(k, text, env)
    IN  IF r.raised
        THEN [r EXCEPT !.raised = FALSE] @@ [status |-> "Failed to send message"]
        ELSE r @@ [status |-> "Message sent successfully"]

ToolSendImage(k, path, env) ==
    LET r == SendImage(k, path, env)
    IN  IF r.raised
        THEN [r EXCEPT !.raised = FALSE] @@ [status |-> "Failed to send image"]
        ELSE r @@ [status |-> "Image sent successfully"]

VARIABLES
    sKind,       \* which sender class the sender is
    sFaulty,     \* whether every external call may raise (fault injection)
    sDelivered,  \* the response queue (gRPC, SSE) or the chat (Telegram)
    sLast,       \* the last call: its operation, argument, environment, outcome
    sCalls       \* number of calls made

senderVars == <<sKind, sFaulty, sDelivered, sLast, sCalls>>

NoCall == [op |-> "none"]

SenderIdle ==
    /\ sKind = "grpc"
    /\ sFaulty = FALSE
    /\ sDelivered = <<>>
    /\ sLast = NoCall
    /\ sCalls = 0

SenderInit(faulty) ==
    /\ sKind \in SenderKinds
    /\ sFaulty = faulty
    /\ sDelivered = <<>>
    /\ sLast = NoCall
    /\ sCalls = 0

Envs == IF sFaulty THEN Env ELSE RealEnv(sKind)

Called(op, arg, env, out) ==
    /\ sCalls < MaxSenderCalls
    /\ sCalls' = sCalls + 1
    /\ sDelivered' = sDelivered \o out.delivered
    /\ sLast' = [op |-> op, arg |-> arg, env |-> env, before |-> sDelivered, out |-> out]
    /\ UNCHANGED <<sKind, sFaulty>>

\* the agent (or a browser sub-agent) calls message_sender.send_text(text)
CallSendText ==
    \E text \in Texts, env \in Envs :
        Called("send_text", text, env, SendText(sKind, text, env))

\* ... message_sender.send_image(image_path)
CallSendImage ==
    \E path \in Paths, env \in Envs :
        Called("send_image", path, env, SendImage(sKind, path, env))

\* the agent run calls the send_message tool
CallToolSendMessage ==
    \E text \in Texts, env \in Envs :
        Called("tool_send_message", text, env, ToolSendMessage(sKind, text, env))

\* the agent run calls the send_image tool
CallToolSendImage ==
    \E path \in Paths, env \in Envs :
        Called("tool_send_image", path, env, ToolSendImage(sKind, path, env))

\* ---- claims about the senders ----

SenderOps == {"send_text", "send_image"}
ToolOps == {"tool_send_message", "tool_send_image"}

\* what the last call appended to the queue / chat
LastPut == SubSeq(sDelivered, Len(sLast.before) + 1, Len(sDelivered))

\* d is "Image: " followed by the part of path after its last "/"
IsImageDescription(d, path) ==
    /\ Len(d) >= 1
    /\ d[1] = "Image: "
    /\ \A i \in 2..Len(d) : d[i] # "/"
    /\ \E i \in 0..Len(path) :
          /\ SubSeq(path, i + 1, Len(path)) = Tail(d)
          /\ i > 0 => path[i] = "/"

\* C5: each send_text(text) on a queue-based sender puts exactly one item
\* {text: text} on the response queue; each send_image(path) puts exactly one
\* item: the image item with the path and 'Image: <basename>' when the file
\* exists, otherwise one text item warning that the file was not found.
C5_QueueSenderPutsOneItem ==
    (sKind \in QueueKinds /\ sLast.op \in SenderOps) =>
        /\ IsPrefix(sLast.before, sDelivered)
        /\ Len(LastPut) = 1
        /\ sLast.op = "send_text" => LastPut[1] = [text |-> sLast.arg]
        /\ (sLast.op = "send_image" /\ sLast.env.exists) =>
              /\ DOMAIN LastPut[1] = {"image"}
              /\ LastPut[1].image.file_path = sLast.arg
              /\ IsImageDescription(LastPut[1].image.description, sLast.arg)
        /\ (sLast.op = "send_image" /\ ~sLast.env.exists) =>
              /\ DOMAIN LastPut[1] = {"text"}
              /\ LastPut[1].text =
                    <<"Image was generated but file not found: ">> \o sLast.arg

\* a queue sender was asked for an image whose file is missing, after an
\* earlier call had already queued an image with a directory in its path
C5_Witness ==
    /\ sKind \in QueueKinds
    /\ sLast.op = "send_image"
    /\ ~sLast.env.exists
    /\ Len(sLast.before) = 1
    /\ "image" \in DOMAIN sLast.before[1]
    /\ Len(sLast.before[1].image.description) < Len(sLast.before[1].image.file_path)

\* whether the environment of the last call made one of its external calls fail
PrimaryFailed ==
    \/ sLast.op = "send_text" /\ sLast.env.textRaises
    \/ sLast.op = "send_image" /\ sLast.env.existsRaises
    \/ sLast.op = "send_image" /\ sLast.env.exists /\ sLast.env.imageRaises
    \/ sLast.op = "send_image" /\ ~sLast.env.exists /\ sLast.env.textRaises

\* C6: send_text and send_image of every sender never propagate an
\* exception: whatever external call fails, the failure is logged, send_image
\* falls back to a text when that can still be sent, and the call returns.
C6_SendersNeverRaise ==
    sLast.op \in SenderOps =>
        /\ ~sLast.out.raised
        /\ PrimaryFailed => sLast.out.errors >= 1
        /\ (/\ sLast.op = "send_image"
            /\ sLast.env.existsRaises \/ (sLast.env.exists /\ sLast.env.imageRaises)
            /\ ~sLast.env.textRaises) => Len(LastPut) = 1

\* a Telegram send_image where the photo, the MarkdownV2 text and the plain
\* text all failed
C6_Witness ==
    /\ sKind = "telegram"
    /\ sLast.op = "send_image"
    /\ sLast.env.exists /\ sLast.env.imageRaises
    /\ sLast.env.textRaises /\ sLast.env.plainRaises
    /\ sLast.out.errors = 3
    /\ LastPut = <<>>

\* whether the last call delivered the text / image it was given
TextDelivered ==
    \E i \in 1..Len(LastPut) :
        \/ LastPut[i] = [text |-> sLast.arg]
        \/ /\ "chat_text" \in DOMAIN LastPut[i]
           /\ LastPut[i].parse_mode = "MarkdownV2" \/ LastPut[i].chat_text = sLast.arg
ImageDelivered ==
    \E i \in 1..Len(LastPut) :
        \/ /\ "image" \in DOMAIN LastPut[i]
           /\ LastPut[i].image.file_path = sLast.arg
        \/ LastPut[i] = [chat_photo |-> sLast.arg]

\* C7: the send_message / send_image tools return '... sent successfully' only
\* when the sender delivered the text or image, a 'Failed to send ...' status
\* when delivery failed, and never raise into the agent run.
C7_ToolStatusTellsDelivery ==
    sLast.op \in ToolOps =>
        /\ ~sLast.out.raised
        /\ sLast.out.status = "Message sent successfully" => TextDelivered
        /\ sLast.out.status = "Image sent successfully" => ImageDelivered
        /\ (sLast.op = "tool_send_message" /\ ~TextDelivered) =>
              sLast.out.status = "Failed to send message"
        /\ (sLast.op = "tool_send_image" /\ ~ImageDelivered) =>
              sLast.out.status = "Failed to send image"

\* ------------------------------------------------------------------------
\* ConversationAgent.memory_summarizer (pydantic_mcp.py)
\* ------------------------------------------------------------------------

\* Bounds of the summarizer specification
MaxTurns == 3
MaxRounds == 2

\* the parts of a message
UserPromptPart == [kind |-> "UserPromptPart", content |-> 0]
ToolCallPart(i) == [kind |-> "ToolCallPart", content |-> i]
ToolReturnPart(i) == [kind |-> "ToolReturnPart", content |-> i]
AnswerPart == [kind |-> "TextPart", content |-> 0]
RemovedPart == [kind |-> "TextPart", content |-> "Tool return removed for memory reasons"]

\* the messages of all_messages(): ModelRequest and ModelResponse objects
ModelRequest(parts) == [cls |-> "ModelRequest", parts |-> parts]
ModelResponse(parts) == [cls |-> "ModelResponse", parts |-> parts]

\* one round of tool use: the model calls n tools, the next request returns
\* their results; t numbers the round
ToolRound(t, n) ==
    <<ModelResponse([i \in 1..n |-> ToolCallPart(10 * t + i)]),
      ModelRequest([i \in 1..n |-> ToolReturnPart(10 * t + i)])>>

\* the messages a run adds: the user prompt, its rounds of tool use (rounds[j]
\* tools in round j), the final answer; turn numbers the run
TurnMessages(turn, rounds) ==
    <<ModelRequest(<<UserPromptPart>>)>>
    \o Concat([j \in 1..Len(rounds) |-> ToolRound(MaxRounds * turn + j, rounds[j])])
    \o <<ModelResponse(<<AnswerPart>>)>>

RECURSIVE CountToolReturns(_)
\* sum(1 for part in node.parts if isinstance(part, ToolReturnPart))
CountToolReturns(parts) ==
    IF parts = <<>> THEN 0
    ELSE (IF Head(parts).kind = "ToolReturnPart" THEN 1 ELSE 0) + CountToolReturns(Tail(parts))

RECURSIVE ToolResultCount(_)
\* tool_result_count
ToolResultCount(nodes) ==
    IF nodes = <<>> THEN 0
    ELSE CountToolReturns(Head(nodes).parts) + ToolResultCount(Tail(nodes))

\* isinstance(node, ModelRequestNode): ModelRequestNode is a node of the run
\* graph, not one of the message classes
IsModelRequestNode(node) == node.cls = "ModelRequestNode"

RECURSIVE ProcessParts(_, _, _)
\* the inner loop over the parts of one node; removed is
\* removed_tool_return_count
ProcessParts(parts, removed, total) ==
    IF parts = <<>> THEN [parts |-> <<>>, removed |-> removed]
    ELSE LET part == Head(parts)
             n == IF part.kind = "ToolReturnPart" THEN removed + 1 ELSE removed
             kept == IF part.kind = "ToolReturnPart" /\ n # total THEN RemovedPart ELSE part
             rest == ProcessParts(Tail(parts), n, total)
         IN  [parts |-> <<kept>> \o rest.parts, removed |-> rest.removed]

RECURSIVE ProcessNodes(_, _, _)
\* the outer loop over the nodes
ProcessNodes(nodes, removed, total) ==
    IF nodes = <<>> THEN <<>>
    ELSE LET node == Head(nodes) IN
         IF IsModelRequestNode(node)
         THEN LET done == ProcessParts(node.parts, removed, total)
              IN  <<[node EXCEPT !.parts = done.parts]>>
                  \o ProcessNodes(Tail(nodes), done.removed, total)
         ELSE <<node>> \o ProcessNodes(Tail(nodes), removed, total)

\* memory_summarizer
MemorySummarizer(nodes) ==
    IF ToolResultCount(nodes) > 1
    THEN ProcessNodes(nodes, 0, ToolResultCount(nodes))
    ELSE nodes

VARIABLES
    mTurns,    \* number of completed run_query calls
    mNodes,    \* the all_messages() list of the last run
    mHistory   \* self.message_history

sumVars == <<mTurns, mNodes, mHistory>>

SumIdle ==
    /\ mTurns = 0
    /\ mNodes = <<>>
    /\ mHistory = <<>>

\* run_query of pydantic_mcp.py ends with a result: the run was started with
\* message_history, and memory_summarizer(all_messages()) is stored
SummarizedTurn ==
    \E rounds \in SeqUpTo({1, 2}, MaxRounds) :
        /\ mTurns < MaxTurns
        /\ mTurns' = mTurns + 1
        /\ mNodes' = mHistory \o TurnMessages(mTurns, rounds)
        /\ mHistory' = MemorySummarizer(mNodes')

\* ---- claim about the summarizer ----

\* the position of the last tool-return part of a message list
IsLastToolReturn(nodes, i, j) ==
    /\ nodes[i].parts[j].kind = "ToolReturnPart"
    /\ \A k \in 1..Len(nodes) : \A l \in 1..Len(nodes[k].parts) :
          (nodes[k].parts[l].kind = "ToolReturnPart") => (k < i \/ (k = i /\ l <= j))

\* C4: with more than one tool-return part in the list, the returned history
\* keeps only the last one and every earlier one is the text part 'Tool return
\* removed for memory reasons'; with at most one the list is unchanged; the
\* number and order of messages and of all other parts are preserved.
C4_SummarizerKeepsOnlyLastToolReturn ==
    mTurns > 0 =>
        /\ Len(mHistory) = Len(mNodes)
        /\ \A i \in 1..Len(mNodes) :
              /\ mHistory[i].cls = mNodes[i].cls
              /\ Len(mHistory[i].parts) = Len(mNodes[i].parts)
              /\ \A j \in 1..Len(mNodes[i].parts) :
                    mHistory[i].parts[j] =
                        IF /\ mNodes[i].parts[j].kind = "ToolReturnPart"
                           /\ ~IsLastToolReturn(mNodes, i, j)
                        THEN RemovedPart
                        ELSE mNodes[i].parts[j]

\* ------------------------------------------------------------------------
\* BrowserInteractionAgent.execute_browser_task / execute_goal_step
\* ------------------------------------------------------------------------

\* Bounds of the browser specification
MaxBrowserCalls == 2

Tasks == {<<"o", "p", "e", "n">>, <<"c", "l", "i", "c", "k">>, <<>>}
Outputs == {<<"d", "o", "n", "e">>, <<>>}
\* how an agent run ends: with a result and its output, with no result, or
\* with an exception
RunOutcomes == [type : {"result"}, output : Outputs]
                  \cup {[type |-> "noresult", output |-> <<>>],
                        [type |-> "raise", output |-> <<>>]}

NoBrowserResult == <<"No result from browser interaction">>
NotInitialized == <<"Failed to execute browser task: Agent not initialized">>

\* step_prompt
StepPrompt(goal) ==
    <<"Goal: ">> \o goal
    \o <<"\n\nExecute the next appropriate step towards completing this goal.">>

\* self.agent is set by __init__ and never cleared
AgentInitialized == TRUE

\* (mutation of GoalStepReturn: the output is returned whenever there is a result)
GoalStepReturnAnyOutput(outcome) ==
    IF outcome.type = "result" THEN outcome.output ELSE NoBrowserResult

\* what execute_goal_step returns after the run
GoalStepReturn(outcome) ==
    IF outcome.type = "result" /\ outcome.output # <<>>
    THEN outcome.output
    ELSE NoBrowserResult

VARIABLES
    bPc,      \* where the current call is: idle, goal_step, running
    bTask,    \* the task of the current call
    bRuns,    \* the prompts of the agent runs the current call started
    bDone     \* the finished calls: task, runs, how the run ended, what was returned

browserVars == <<bPc, bTask, bRuns, bDone>>

BrowserIdle ==
    /\ bPc = "idle"
    /\ bTask = <<>>
    /\ bRuns = <<>>
    /\ bDone = <<>>

\* execute_browser_task(task) is called and delegates to execute_goal_step
ExecuteBrowserTask ==
    \E task \in Tasks :
        /\ bPc = "idle"
        /\ Len(bDone) < MaxBrowserCalls
        /\ bPc' = "goal_step"
        /\ bTask' = task
        /\ bRuns' = <<>>
        /\ UNCHANGED bDone

\* execute_goal_step builds the step prompt and enters self.agent.iter
ExecuteGoalStep ==
    /\ bPc = "goal_step"
    /\ IF AgentInitialized
       THEN /\ bRuns' = Append(bRuns, StepPrompt(bTask))
            /\ bPc' = "running"
            /\ UNCHANGED <<bTask, bDone>>
       ELSE /\ bDone' = Append(bDone, [task |-> bTask, runs |-> bRuns,
                                       outcome |-> [type |-> "none", output |-> <<>>],
                                       raised |-> FALSE, returned |-> NotInitialized])
            /\ bPc' = "idle"
            /\ bTask' = <<>>
            /\ UNCHANGED bRuns

\* the run ends and execute_goal_step returns (or the exception leaves it)
BrowserRunEnds ==
    \E outcome \in RunOutcomes :
        /\ bPc = "running"
        /\ bDone' = Append(bDone, [task |-> bTask, runs |-> bRuns, outcome |-> outcome,
                                   raised |-> (outcome.type = "raise"),
                                   returned |-> IF outcome.type = "raise" THEN <<>>
                                                ELSE GoalStepReturn(outcome)])
        /\ bPc' = "idle"
        /\ bTask' = <<>>
        /\ bRuns' = <<>>

\* ---- claim about the browser agent ----

\* C8: each execute_browser_task(task) starts exactly one agent run, for the
\* step prompt built from that task, and returns that run's output, or 'No
\* result from browser interaction' when the run has no result or an empty
\* output; it never starts a second run within the call.
C8_OneRunPerBrowserTask ==
    /\ Len(bRuns) <= 1
    /\ bPc = "running" => Len(bRuns) = 1
    /\ \A i \in 1..Len(bDone) :
          LET c == bDone[i] IN
          /\ Len(c.runs) = 1
          /\ Len(c.runs[1]) = Len(c.task) + 2
          /\ c.runs[1][1] = "Goal: "
          /\ SubSeq(c.runs[1], 2, Len(c.task) + 1) = c.task
          /\ ~c.raised =>
                c.returned = IF c.outcome.type = "result" /\ Len(c.outcome.output) > 0
                             THEN c.outcome.output
                             ELSE <<"No result from browser interaction">>

\* a call whose run ended with an empty output, after a call that returned
\* its run's output
C8_Witness ==
    /\ Len(bDone) = 2
    /\ bDone[1].outcome.type = "result" /\ bDone[1].returned = bDone[1].outcome.output
    /\ bDone[1].returned # <<>>
    /\ bDone[2].outcome = [type |-> "result", output |-> <<>>]
    /\ bDone[2].task # bDone[1].task

\* ------------------------------------------------------------------------
\* get_model and the configuration models
\* ------------------------------------------------------------------------

\* Bounds of the configuration specification
MaxNamePieces == 3

openrouter == <<"o", "p", "e", "n", "r", "o", "u", "t", "e", "r">>
google == <<"g", "o", "o", "g", "l", "e">>
anthropic == <<"a", "n", "t", "h", "r", "o", "p", "i", "c">>

\* the keys of provider_to_model_creator, and the class each creates
Providers == {openrouter, google, anthropic}
ModelClass(provider) ==
    CASE provider = openrouter -> "OpenAIModel"
      [] provider = google -> "GeminiModel"
      [] provider = anthropic -> "AnthropicModel"

\* the model names tried: up to MaxNamePieces of these pieces, one after another
NamePieces == Providers \cup {<<"x">>, <<"/">>, <<"a", "/", "b">>}
ModelNames == {Concat(ps) : ps \in SeqUpTo(NamePieces, MaxNamePieces)}

RECURSIVE Split(_)
\* full_model_name.split("/")
Split(s) ==
    IF \A i \in 1..Len(s) : s[i] # "/" THEN <<s>>
    ELSE LET i == CHOOSE k \in 1..Len(s) : s[k] = "/" /\ \A j \in 1..(k - 1) : s[j] # "/"
         IN  <<SubSeq(s, 1, i - 1)>> \o Split(SubSeq(s, i + 1, Len(s)))

RECURSIVE JoinPlain(_)
\* (mutation of Join: the parts are joined without the separator)
JoinPlain(parts) ==
    IF parts = <<>> THEN <<>> ELSE Head(parts) \o JoinPlain(Tail(parts))

RECURSIVE Join(_)
\* "/".join(parts)
Join(parts) ==
    IF parts = <<>> THEN <<>>
    ELSE IF Len(parts) = 1 THEN Head(parts)
    ELSE Head(parts) \o <<"/">> \o Join(Tail(parts))

ValueError(msg) == [raised |-> "ValueError", msg |-> msg]

\* get_model
GetModel(full_model_name) ==
    LET model_parts == Split(full_model_name) IN
    IF Len(model_parts) < 2
    THEN ValueError("Invalid model name format")
    ELSE LET provider == model_parts[1]
             model_name == Join(Tail(model_parts))
         IN  IF provider \notin Providers
             THEN ValueError("Unknown provider")
             ELSE [raised |-> "no", class |-> ModelClass(provider), model_name |-> model_name]

\* str.upper on the letters
LowerCase == <<"a", "b", "c", "d", "e", "f", "g", "h", "i", "j", "k", "l", "m",
               "n", "o", "p", "q", "r", "s", "t", "u", "v", "w", "x", "y", "z">>
UpperCase == <<"A", "B", "C", "D", "E", "F", "G", "H", "I", "J", "K", "L", "M",
               "N", "O", "P", "Q", "R", "S", "T", "U", "V", "W", "X", "Y", "Z">>
UpperChar(c) ==
    IF \E i \in 1..Len(LowerCase) : LowerCase[i] = c
    THEN UpperCase[CHOOSE i \in 1..Len(LowerCase) : LowerCase[i] = c]
    ELSE c
Upper(s) == [i \in 1..Len(s) |-> UpperChar(s[i])]

\* argument values: strings, and values of another type
Str(s) == [type |-> "str", v |-> s]
NotStr == [type |-> "int", v |-> <<>>]
IsStr(x) == x.type = "str"

\* (mutation of uppercase_log_level: the value is stored as given)
keep_log_level(v) == v

\* AgentConfig.uppercase_log_level (field_validator, mode="before")
uppercase_log_level(v) == IF IsStr(v) THEN Str(Upper(v.v)) ELSE v

\* the fields of AgentConfig with their defaults
AgentConfigDefaults ==
    [main_model_name |-> Str(<<>>),
     browser_model_name |-> Str(<<>>),
     temp_folder |-> Str(<<"/", "t", "m", "p">>),
     file_log_level |-> Str(<<"D", "E", "B", "U", "G">>),
     console_log_level |-> Str(<<"I", "N", "F", "O">>),
     wait_for_input |-> [type |-> "bool", v |-> FALSE]]

ValidationError == [raised |-> "ValidationError"]

\* AgentConfig(**kwargs): extra="forbid", the validator runs on a given
\* file_log_level before the type check, defaults are taken as they are
AgentConfig(kwargs) ==
    LET given == DOMAIN kwargs
        validated == [f \in given |-> IF f = "file_log_level"
                                      THEN uppercase_log_level(kwargs[f])
                                      ELSE kwargs[f]]
    IN  IF \E f \in given : f \notin DOMAIN AgentConfigDefaults
        THEN ValidationError
        ELSE IF \E f \in given : validated[f].type # AgentConfigDefaults[f].type
        THEN ValidationError
        ELSE [raised |-> "no",
              fields |-> [f \in DOMAIN AgentConfigDefaults |->
                             IF f \in given THEN validated[f] ELSE AgentConfigDefaults[f]]]

\* the fields of BrowserAgentConfig; model_name is required
BrowserAgentConfigDefaults ==
    [output_dir |-> Str(<<"/", "t", "m", "p">>), image_responses |-> Str(<<"o", "m", "i", "t">>)]

\* BrowserAgentConfig(**kwargs)
BrowserAgentConfig(kwargs) ==
    LET given == DOMAIN kwargs
        fields == DOMAIN BrowserAgentConfigDefaults \cup {"model_name"}
    IN  IF "model_name" \notin given \/ \E f \in given : f \notin fields
        THEN ValidationError
        ELSE IF \E f \in given : ~IsStr(kwargs[f])
        THEN ValidationError
        ELSE [raised |-> "no",
              fields |-> [f \in fields |->
                             IF f \in given THEN kwargs[f] ELSE BrowserAgentConfigDefaults[f]]]

\* the keyword arguments tried
LogLevels == {Str(<<"d", "e", "b", "u", "g">>), Str(<<"I", "n", "f", "o">>),
              Str(<<"W", "A", "R", "N", "1">>), NotStr}
Folders == {Str(<<"/", "v", "a", "r">>), NotStr}
ArgValues(f) ==
    CASE f = "file_log_level" -> LogLevels
      [] f = "temp_folder" -> Folders
      [] f = "model_name" -> {Str(n) : n \in {Concat(<<openrouter, <<"/">>, <<"M", "x">>>>), <<"m">>}}
                                \cup {NotStr}
      [] OTHER -> {Str(<<"8", "0">>)}
Kwargs(names) == UNION {[fs -> UNION {ArgValues(f) : f \in fs}] : fs \in SUBSET names}
WellTyped(kw) == \A f \in DOMAIN kw : kw[f] \in ArgValues(f)

VARIABLES
    cLast   \* the last call: function, argument, result

configVars == <<cLast>>

NoConfigCall == [fn |-> "none"]

ConfigIdle == cLast = NoConfigCall

\* get_model(name) is called
CallGetModel ==
    \E name \in ModelNames :
        /\ cLast = NoConfigCall
        /\ cLast' = [fn |-> "get_model", arg |-> name, out |-> GetModel(name)]

\* AgentConfig(...) is built
BuildAgentConfig ==
    \E kw \in Kwargs({"file_log_level", "temp_folder", "rest_port"}) :
        /\ WellTyped(kw)
        /\ cLast = NoConfigCall
        /\ cLast' = [fn |-> "AgentConfig", arg |-> kw, out |-> AgentConfig(kw)]

\* BrowserAgentConfig(...) is built
BuildBrowserAgentConfig ==
    \E kw \in Kwargs({"model_name", "output_dir"}) :
        /\ WellTyped(kw)
        /\ cLast = NoConfigCall
        /\ cLast' = [fn |-> "BrowserAgentConfig", arg |-> kw, out |-> BrowserAgentConfig(kw)]

\* ---- claims about the configuration ----

HasSlash(n) == \E i \in 1..Len(n) : n[i] = "/"
FirstSlash(n) == CHOOSE i \in 1..Len(n) : n[i] = "/" /\ \A j \in 1..(i - 1) : n[j] # "/"

\* C9: get_model raises 'Invalid model name format' for every name without
\* '/' (before any provider check), 'Unknown provider' for every name whose
\* part before the first '/' is not openrouter, google or anthropic, and
\* otherwise builds a model named by everything after the first '/', further
\* '/' kept.
C9_GetModelParsesProviderAndName ==
    cLast.fn = "get_model" =>
        LET n == cLast.arg
            r == cLast.out
        IN  IF ~HasSlash(n)
            THEN r = [raised |-> "ValueError", msg |-> "Invalid model name format"]
            ELSE IF SubSeq(n, 1, FirstSlash(n) - 1) \notin {openrouter, google, anthropic}
            THEN r = [raised |-> "ValueError", msg |-> "Unknown provider"]
            ELSE /\ r.raised = "no"
                 /\ r.model_name = SubSeq(n, FirstSlash(n) + 1, Len(n))

\* a model was built whose name holds a further '/'
C9_Witness ==
    /\ cLast.fn = "get_model"
    /\ cLast.out.raised = "no"
    /\ HasSlash(cLast.out.model_name)
    /\ cLast.out.class = "GeminiModel"

\* C10: AgentConfig() has temp_folder '/tmp' and file_log_level 'DEBUG'; a
\* file_log_level given as a string is stored upper-cased; BrowserAgentConfig
\* stores the model_name it is given unchanged.
C10_ConfigDefaultsAndLogLevel ==
    /\ (cLast.fn = "AgentConfig" /\ DOMAIN cLast.arg = {}) =>
          /\ cLast.out.raised = "no"
          /\ cLast.out.fields.temp_folder = Str(<<"/", "t", "m", "p">>)
          /\ cLast.out.fields.file_log_level = Str(<<"D", "E", "B", "U", "G">>)
    /\ (/\ cLast.fn = "AgentConfig"
        /\ cLast.out.raised = "no"
        /\ "file_log_level" \in DOMAIN cLast.arg) =>
          LET given == cLast.arg.file_log_level.v
              stored == cLast.out.fields.file_log_level.v
          IN  /\ IsStr(cLast.out.fields.file_log_level)
              /\ Len(stored) = Len(given)
              /\ \A i \in 1..Len(given) :
                    /\ stored[i] \notin Range(LowerCase)
                    /\ stored[i] # given[i] =>
                          \E k \in 1..26 : given[i] = LowerCase[k] /\ stored[i] = UpperCase[k]
    /\ (/\ cLast.fn = "AgentConfig"
        /\ "file_log_level" \in DOMAIN cLast.arg
        /\ IsStr(cLast.arg.file_log_level)
        /\ DOMAIN cLast.arg = {"file_log_level"}) => cLast.out.raised = "no"
    /\ (cLast.fn = "BrowserAgentConfig" /\ cLast.out.raised = "no") =>
          cLast.out.fields.model_name = cLast.arg.model_name

\* an AgentConfig built with a mixed-case file_log_level
C10_Witness ==
    /\ cLast.fn = "AgentConfig"
    /\ cLast.out.raised = "no"
    /\ "file_log_level" \in DOMAIN cLast.arg
    /\ cLast.arg.file_log_level = Str(<<"I", "n", "f", "o">>)
    /\ cLast.out.fields.file_log_level = Str(<<"I", "N", "F", "O">>)

\* ------------------------------------------------------------------------
\* capture_page_snapshot (PageAnalysisAgent, BrowserAgent)
\* ------------------------------------------------------------------------

\* Bounds of the page snapshot specification
MaxSnapshotCalls == 2

\* the three versions of capture_page_snapshot: agents/page_analysis_agent.py,
\* page_analysis_agent.py, browser_agent.py
SnapshotVersions == {"agents", "page_analysis", "browser_agent"}
Goals == {<<>>, <<"g">>}
TEMP_FOLDER == "/tmp"
None == <<"None">>

\* screenshot_filename for the call made at time t
ScreenshotFilename(t) == <<"page-snapshot-", t, ".png">>

\* (mutation of ScreenshotPath: the path is not stored in the result)
ScreenshotPathDropped(filename) == None

\* result["screenshot_path"], set right after the tool call returned
ScreenshotPath(filename) == <<TEMP_FOLDER, "/">> \o filename

\* snapshot_prompt; only agents/page_analysis_agent.py has a goal_summary
SnapshotPrompt(version, goal) ==
    IF version = "agents"
    THEN <<"Please: ">> \o (IF goal # <<>> THEN <<"\n\nCURRENT GOAL: ">> \o goal ELSE <<>>)
         \o <<"1. Use browser_snapshot 2. Analyze the snapshot (goal-relevant)">>
    ELSE <<"Please: 1. Use browser_snapshot 2. Analyze the snapshot (all elements)">>

\* BrowserAgent tests self.mcp_context before the tool call; __aenter__ has
\* set it before the agent can be used, and nothing clears it
McpContextEntered == TRUE

\* how the analysis run ends
AnalysisOutcomes == {"result", "noresult", "raise"}

VARIABLES
    shotVersion,  \* which version of the method this agent has
    shotPc,       \* where the current call is
    shotGoal,     \* goal_summary of the current call
    shotResult,   \* result["screenshot_path"] of the current call
    shotEvents,   \* what the current call did so far, in order
    shotDone      \* the finished calls

snapVars == <<shotVersion, shotPc, shotGoal, shotResult, shotEvents, shotDone>>

SnapStart(v) ==
    /\ shotVersion = v
    /\ shotPc = "idle"
    /\ shotGoal = <<>>
    /\ shotResult = None
    /\ shotEvents = <<>>
    /\ shotDone = <<>>

SnapIdle == SnapStart("agents")

\* capture_page_snapshot is called: the result dict is built
CapturePageSnapshot ==
    \E goal \in Goals :
        /\ shotPc = "idle"
        /\ Len(shotDone) < MaxSnapshotCalls
        /\ shotVersion # "agents" => goal = <<>>
        /\ shotPc' = "screenshot"
        /\ shotGoal' = goal
        /\ shotResult' = None
        /\ shotEvents' = <<>>
        /\ UNCHANGED <<shotVersion, shotDone>>

\* playwright_server.call_tool("browser_take_screenshot", ...) returns or
\* raises; on return the path is stored in the result
TakeScreenshot(ok) ==
    /\ shotPc = "screenshot"
    /\ IF shotVersion = "browser_agent" /\ ~McpContextEntered
       THEN /\ shotPc' = "analysis"
            /\ UNCHANGED <<shotResult, shotEvents>>
       ELSE IF ok
            THEN /\ shotResult' = ScreenshotPath(ScreenshotFilename(Len(shotDone)))
                 /\ shotEvents' = Append(shotEvents, "call_tool returned")
                 /\ shotPc' = "log"
            ELSE /\ shotEvents' = shotEvents \o <<"call_tool raised", "warning logged">>
                 /\ shotPc' = "analysis"
                 /\ UNCHANGED shotResult
    /\ UNCHANGED <<shotVersion, shotGoal, shotDone>>

\* log_markdown of the screenshot returns or raises; agents/page_analysis_agent.py
\* then sends the image, and the sender does not raise
LogScreenshot(ok) ==
    /\ shotPc = "log"
    /\ shotEvents' = shotEvents \o
          (IF ~ok THEN <<"log_markdown raised", "warning logged">>
           ELSE IF shotVersion = "agents" THEN <<"send_image">>
           ELSE <<>>)
    /\ shotPc' = "analysis"
    /\ UNCHANGED <<shotVersion, shotGoal, shotResult, shotDone>>

\* the prompt is built and self.agent.iter(snapshot_prompt) is entered
StartAnalysis ==
    /\ shotPc = "analysis"
    /\ shotEvents' = shotEvents \o <<"iter", SnapshotPrompt(shotVersion, shotGoal)>>
    /\ shotPc' = "running"
    /\ UNCHANGED <<shotVersion, shotGoal, shotResult, shotDone>>

\* the analysis run ends: the result is returned, or ValueError for a run
\* without result, or the run's exception
AnalysisEnds(outcome) ==
    /\ shotPc = "running"
    /\ shotDone' = Append(shotDone,
          [events |-> shotEvents,
           outcome |-> outcome,
           returned |-> IF outcome = "result"
                        THEN [page_summary |-> <<"summary">>, screenshot_path |-> shotResult]
                        ELSE [raised |-> IF outcome = "noresult" THEN "ValueError" ELSE "Exception"]])
    /\ shotPc' = "idle"
    /\ shotGoal' = <<>>
    /\ shotResult' = None
    /\ shotEvents' = <<>>
    /\ UNCHANGED shotVersion

\* ---- claim about capture_page_snapshot ----

Position(events, e) == CHOOSE i \in 1..Len(events) : events[i] = e
Happened(events, e) == \E i \in 1..Len(events) : events[i] = e

\* C20: capture_page_snapshot always attempts the direct
\* browser_take_screenshot tool call before it starts the analysis run; a
\* failed screenshot is only logged and does not prevent the analysis run;
\* and the returned screenshot_path is non-null exactly when the screenshot
\* tool call succeeded.
C20_ScreenshotBeforeAnalysis ==
    /\ Happened(shotEvents, "iter") =>
          \E i \in 1..Len(shotEvents) :
              /\ shotEvents[i] \in {"call_tool returned", "call_tool raised"}
              /\ i < Position(shotEvents, "iter")
    /\ \A k \in 1..Len(shotDone) :
          LET c == shotDone[k] IN
          /\ Happened(c.events, "iter")
          /\ \E i \in 1..Len(c.events) :
                /\ c.events[i] \in {"call_tool returned", "call_tool raised"}
                /\ i < Position(c.events, "iter")
          /\ Happened(c.events, "call_tool raised") => Happened(c.events, "warning logged")
          /\ c.outcome = "result" =>
                (c.returned.screenshot_path # <<"None">>
                    <=> Happened(c.events, "call_tool returned"))

\* a call whose screenshot failed still ran the analysis and returned no
\* path, after a call whose screenshot succeeded but could not be logged
C20_Witness ==
    /\ Len(shotDone) = 2
    /\ Happened(shotDone[1].events, "log_markdown raised")
    /\ shotDone[1].outcome = "result"
    /\ shotDone[1].returned.screenshot_path # None
    /\ Happened(shotDone[2].events, "call_tool raised")
    /\ shotDone[2].outcome = "result"
    /\ shotDone[2].returned.screenshot_path = None

\* ------------------------------------------------------------------------
\* The session servers: RestServer, BrowserCopilotServicer, TelegramBot,
\* and ConversationAgent.run_query
\* ------------------------------------------------------------------------

\* Bounds of the server specification
MaxRequests == 2
MaxSends == 2

Sessions == {"s1", "s2"}
\* request handlers that can be in progress at once
Slots == {1, 2}
\* one ConversationAgent can be constructed per request
AgentIds == 1..MaxRequests

ServerKinds == {"rest", "grpc", "telegram"}
QueueServers == {"rest", "grpc"}
MsgTypes == {"TEXT", "PDF"}
Content == <<"c">>
ServerTexts == {<<"h", "i">>}
ServerPaths == {<<"b", ".", "p">>}

\* In the server specification the transport itself works: what a failing
\* transport does to a send is the subject of the sender specifications.
ServerEnvs == {e \in Env : ~e.existsRaises /\ ~e.imageRaises /\ ~e.textRaises
                                             /\ ~e.plainRaises}

\* the sender class each server constructs
SenderOf(k) == CASE k = "rest" -> "sse" [] k = "grpc" -> "grpc" [] OTHER -> "telegram"

\* the query handed to run_query for a message of type t
BuildQuery(t, fileExists) ==
    CASE t = "TEXT" -> Content
      [] t = "IMAGE" -> <<"An image file has been received at: ">> \o Content
      [] t = "PDF" /\ fileExists ->
            <<"A PDF file has been received and saved to: ">> \o Content
      [] t = "PDF" /\ ~fileExists ->
            <<"A PDF file path was provided but file not found: ">> \o Content
      [] OTHER -> Content

\* the messages one agent run adds to the history it was started with
NewMessages(query) == <<[kind |-> "request", content |-> query], [kind |-> "response"]>>

\* what a response-queue item becomes on the stream
KeyError(item) == "image" \in DOMAIN item /\ "file_path" \notin DOMAIN item.image
ToEvent(k, item) ==
    IF "text" \in DOMAIN item
    THEN IF k = "rest" THEN [event |-> "text", data |-> item.text]
         ELSE [text |-> item.text]
    ELSE IF k = "rest" THEN [event |-> "image", data |-> item.image]
         ELSE [image |-> item.image]
ErrorEvent(k, what) ==
    IF k = "rest" THEN [event |-> "error", data |-> what] ELSE [text |-> what]
CompleteEvent == [event |-> "complete", data |-> <<>>]

VARIABLES
    kind,             \* which server this is
    agents,           \* self.agents: session id -> agent (0: no entry)
    message_senders,  \* self.message_senders: session id -> sender (0: no entry)
    senderQ,          \* per sender (created with its agent): its response_queue
    agentState,       \* per agent: none, created, started, failed
    agentSid,         \* per agent: the session id it was created for
    nextAgent,        \* number of ConversationAgent objects constructed
    history,          \* per agent: message_history
    servedBy,         \* per session id: the agents that served its requests
    nreq,             \* number of requests received
    pc,               \* per handler: where it is
    req,              \* per handler: session id, message type, file check
    rq,               \* per handler: its response queue (0: none)
    ragent,           \* per handler: the local variable agent
    task,             \* per handler: its agent task (run_query)
    snapshot,         \* per handler: the message_history its run was started with
    nsent,            \* per handler: sends made by its run
    queue,            \* per handler: the content of its response queue
    putLog,           \* per handler: every item ever put on its queue
    stream            \* per handler: what it yielded (Telegram: what the chat received)

serverVars == <<kind, agents, message_senders, senderQ, agentState, agentSid,
                nextAgent, history, servedBy, nreq, pc, req, rq, ragent, task,
                snapshot, nsent, queue, putLog, stream>>

\* Bound of the cleanup specifications: DELETE requests
MaxDeletes == 2

\* the calls of cleanup_session: one per DELETE request, and (0) the one
\* cleanup_all is in
DeleteCalls == 1..MaxDeletes
Cleaners == DeleteCalls \cup {0}

VARIABLES
    aexits,    \* per agent: how often its __aexit__ was invoked
    clPc,      \* per cleanup_session call: idle, scheduled, aexit, done, raised
    clSid,     \* per cleanup_session call: its session_id
    clLog,     \* per cleanup_session call: what it logged about __aexit__
    ndel,      \* number of DELETE requests accepted
    allPc,     \* cleanup_all / shutdown: idle, loop, in_session, aexit, done, raised
    allKeys    \* cleanup_all / shutdown: the session ids still to visit

cleanupVars == <<aexits, clPc, clSid, clLog, ndel, allPc, allKeys>>

otherVars == <<senderVars, sumVars, browserVars, configVars, snapVars>>
vars == <<otherVars, cleanupVars, serverVars>>
notServerVars == <<otherVars, cleanupVars>>
notSenderVars == <<sumVars, browserVars, configVars, snapVars, cleanupVars, serverVars>>
notSumVars == <<senderVars, browserVars, configVars, snapVars, cleanupVars, serverVars>>
notBrowserVars == <<senderVars, sumVars, configVars, snapVars, cleanupVars, serverVars>>
notConfigVars == <<senderVars, sumVars, browserVars, snapVars, cleanupVars, serverVars>>
notSnapVars == <<senderVars, sumVars, browserVars, configVars, cleanupVars, serverVars>>

\* the server variables the cleanup code does not touch
registryFrame == <<kind, senderQ, agentState, agentSid, nextAgent, history,
                   servedBy, nreq, pc, req, rq, ragent, task, snapshot, nsent,
                   queue, putLog, stream>>

CleanupIdle ==
    /\ aexits = [a \in AgentIds |-> 0]
    /\ clPc = [c \in Cleaners |-> "idle"]
    /\ clSid = [c \in Cleaners |-> "none"]
    /\ clLog = [c \in Cleaners |-> "none"]
    /\ ndel = 0
    /\ allPc = "idle"
    /\ allKeys = <<>>

NoReq == [sid |-> "none", type |-> "none", fileExists |-> FALSE]

ServerStart(k) ==
    /\ kind = k
    /\ agents = [s \in Sessions |-> 0]
    /\ message_senders = [s \in Sessions |-> 0]
    /\ senderQ = [a \in AgentIds |-> 0]
    /\ agentState = [a \in AgentIds |-> "none"]
    /\ agentSid = [a \in AgentIds |-> "none"]
    /\ nextAgent = 0
    /\ history = [a \in AgentIds |-> <<>>]
    /\ servedBy = [s \in Sessions |-> {}]
    /\ nreq = 0
    /\ pc = [r \in Slots |-> "idle"]
    /\ req = [r \in Slots |-> NoReq]
    /\ rq = [r \in Slots |-> 0]
    /\ ragent = [r \in Slots |-> 0]
    /\ task = [r \in Slots |-> "none"]
    /\ snapshot = [r \in Slots |-> <<>>]
    /\ nsent = [r \in Slots |-> 0]
    /\ queue = [r \in Slots |-> <<>>]
    /\ putLog = [r \in Slots |-> <<>>]
    /\ stream = [r \in Slots |-> <<>>]

ServerIdle == ServerStart("rest")

ServerInit == \E k \in ServerKinds : ServerStart(k)

TaskDone(r) == task[r] \in {"done", "done_noresult", "failed"}

\* send_message 62-67 / SendMessage 73-82 / message_handler 135-136,
\* pdf_handler 146-165: a request arrives and gets its response queue
Receive(r, s, t, ex) ==
    /\ nreq < MaxRequests
    /\ pc[r] = "idle"
    /\ kind = "telegram" => t \in {"TEXT", "PDF"}
    /\ t # "PDF" => ex
    /\ nreq' = nreq + 1
    /\ req' = [req EXCEPT ![r] = [sid |-> s, type |-> t, fileExists |-> ex]]
    /\ rq' = [rq EXCEPT ![r] = IF kind = "telegram" THEN 0 ELSE nreq + 1]
    /\ IF kind = "telegram" /\ t = "PDF" /\ ~ex
       THEN \* the download failed: pdf_handler replies with an error
            /\ pc' = [pc EXCEPT ![r] = "closed"]
            /\ stream' = [stream EXCEPT ![r] = <<TelegramText(<<"Downloading PDF file...">>, "None"),
                                                 TelegramText(<<"Sorry, there was an error">>, "None")>>]
       ELSE /\ pc' = [pc EXCEPT ![r] = "get_agent"]
            /\ stream' = [stream EXCEPT ![r] =
                            IF kind = "telegram" /\ t = "PDF"
                            THEN <<TelegramText(<<"Downloading PDF file...">>, "None")>>
                            ELSE <<>>]
    /\ UNCHANGED <<kind, agents, message_senders, senderQ, agentState, agentSid,
                   nextAgent, history, servedBy, ragent, task, snapshot, nsent,
                   queue, putLog>>

\* what the chat has received when getting the agent raised: pdf_handler
\* catches the exception and replies (telegram_bot 176-180), message_handler
\* and the streaming handlers yield nothing
AbortReply(r) ==
    IF kind = "telegram" /\ req[r].type = "PDF"
    THEN Append(stream[r], TelegramText(<<"Sorry, there was an error">>, "None"))
    ELSE stream[r]

\* (mutation of SessionRegistered: the lookup never finds the session)
SessionNeverRegistered(s) == FALSE

\* session_id in self.agents
SessionRegistered(s) == agents[s] # 0

\* _get_or_create_agent up to its await (or to its return, for a registered
\* session): rest_server 151-157, 163-167; grpc_server 174-180, 186-190;
\* telegram_bot 120-126, 131
GetOrCreateAgent(r, constructed) ==
    LET s == req[r].sid IN
    /\ pc[r] = "get_agent"
    /\ IF SessionRegistered(s)
       THEN /\ constructed
            /\ senderQ' = IF kind \in QueueServers
                          THEN [senderQ EXCEPT ![message_senders[s]] = rq[r]]
                          ELSE senderQ
            /\ ragent' = [ragent EXCEPT ![r] = agents[s]]
            /\ servedBy' = [servedBy EXCEPT ![s] = @ \cup {agents[s]}]
            /\ pc' = [pc EXCEPT ![r] = "have_agent"]
            /\ UNCHANGED <<agentState, agentSid, nextAgent, stream>>
       ELSE IF constructed
            THEN LET a == nextAgent + 1 IN
                 /\ nextAgent' = a
                 /\ agentState' = [agentState EXCEPT ![a] = "created"]
                 /\ agentSid' = [agentSid EXCEPT ![a] = s]
                 /\ senderQ' = [senderQ EXCEPT ![a] = rq[r]]
                 /\ ragent' = [ragent EXCEPT ![r] = a]
                 /\ pc' = [pc EXCEPT ![r] = "aenter"]
                 /\ UNCHANGED <<servedBy, stream>>
            ELSE \* ConversationAgent(message_sender) raised
                 /\ pc' = [pc EXCEPT ![r] = "aborted"]
                 /\ stream' = [stream EXCEPT ![r] = AbortReply(r)]
                 /\ UNCHANGED <<senderQ, ragent, servedBy, agentState, agentSid, nextAgent>>
    /\ UNCHANGED <<kind, agents, message_senders, history, nreq, req, rq, task,
                   snapshot, nsent, queue, putLog>>

\* await agent.__aenter__() returns or raises; on return the agent and its
\* sender are registered and self.agents[session_id] is returned:
\* rest_server 157-167; grpc_server 180-190; telegram_bot 126-131
AenterReturns(r, ok) ==
    LET s == req[r].sid
        a == ragent[r]
    IN
    /\ pc[r] = "aenter"
    /\ IF ok
       THEN /\ agentState' = [agentState EXCEPT ![a] = "started"]
            /\ agents' = [agents EXCEPT ![s] = a]
            /\ message_senders' = IF kind \in QueueServers
                                  THEN [message_senders EXCEPT ![s] = a]
                                  ELSE message_senders
            /\ ragent' = [ragent EXCEPT ![r] = agents'[s]]
            /\ servedBy' = [servedBy EXCEPT ![s] = @ \cup {agents'[s]}]
            /\ pc' = [pc EXCEPT ![r] = "have_agent"]
            /\ UNCHANGED stream
       ELSE /\ agentState' = [agentState EXCEPT ![a] = "failed"]
            /\ ragent' = [ragent EXCEPT ![r] = 0]
            /\ pc' = [pc EXCEPT ![r] = "aborted"]
            /\ stream' = [stream EXCEPT ![r] = AbortReply(r)]
            /\ UNCHANGED <<agents, message_senders, servedBy>>
    /\ UNCHANGED <<kind, senderQ, agentSid, nextAgent, history, nreq, req, rq,
                   task, snapshot, nsent, queue, putLog>>

\* the query is built and run_query is started: as a background task
\* (rest_server 73-89, grpc_server 88-107) or awaited in the handler
\* (telegram_bot 142, 171-174). grpc_server.serve refuses to start without
\* the generated proto module, so pb2 is never None here.
StartTask(r) ==
    /\ pc[r] = "have_agent"
    /\ task' = [task EXCEPT ![r] = "created"]
    /\ pc' = [pc EXCEPT ![r] = IF kind = "telegram" THEN "awaiting" ELSE "relay"]
    /\ UNCHANGED <<kind, agents, message_senders, senderQ, agentState, agentSid,
                   nextAgent, history, servedBy, nreq, req, rq, ragent, snapshot,
                   nsent, queue, putLog, stream>>

\* run_query enters self.agent.iter(query, message_history=self.message_history):
\* conversation_agent 234
RunStart(r) ==
    /\ task[r] = "created"
    /\ task' = [task EXCEPT ![r] = "running"]
    /\ snapshot' = [snapshot EXCEPT ![r] = history[ragent[r]]]
    /\ UNCHANGED <<kind, agents, message_senders, senderQ, agentState, agentSid,
                   nextAgent, history, servedBy, nreq, pc, req, rq, ragent, nsent,
                   queue, putLog, stream>>

\* the items out land on the queue the sender of agent a holds now
PutOnQueue(a, items) ==
    /\ queue' = [q \in Slots |-> IF rq[q] # 0 /\ rq[q] = senderQ[a]
                                THEN queue[q] \o items ELSE queue[q]]
    /\ putLog' = [q \in Slots |-> IF rq[q] # 0 /\ rq[q] = senderQ[a]
                                 THEN putLog[q] \o items ELSE putLog[q]]

\* the run calls the send_message or send_image tool (base_agent 31-65)
RunSend(r, out) ==
    /\ task[r] = "running"
    /\ nsent[r] < MaxSends
    /\ nsent' = [nsent EXCEPT ![r] = @ + 1]
    /\ IF kind \in QueueServers
       THEN PutOnQueue(ragent[r], out.delivered) /\ UNCHANGED stream
       ELSE /\ stream' = [stream EXCEPT ![r] = @ \o out.delivered]
            /\ UNCHANGED <<queue, putLog>>
    /\ UNCHANGED <<kind, agents, message_senders, senderQ, agentState, agentSid,
                   nextAgent, history, servedBy, nreq, pc, req, rq, ragent, task,
                   snapshot>>

RunSendsText(r) ==
    \E text \in ServerTexts, env \in ServerEnvs :
        RunSend(r, ToolSendMessage(SenderOf(kind), text, env))

RunSendsImage(r) ==
    \E path \in ServerPaths, env \in ServerEnvs :
        RunSend(r, ToolSendImage(SenderOf(kind), path, env))

\* (mutation of StoredHistory: only the messages of this run are stored)
StoredHistoryOnlyNew(started, query) == NewMessages(query)

\* agent_run.result.all_messages(): the history the run was started with,
\* followed by the messages of this run (conversation_agent 249)
StoredHistory(started, query) == started \o NewMessages(query)

\* the run ends: with a result (conversation_agent 247-249), without one, or
\* with an exception
RunFinish(r, outcome) ==
    /\ task[r] = "running"
    /\ task' = [task EXCEPT ![r] = outcome]
    /\ history' = IF outcome = "done"
                  THEN [history EXCEPT ![ragent[r]] =
                           StoredHistory(snapshot[r],
                                         BuildQuery(req[r].type, req[r].fileExists))]
                  ELSE history
    /\ UNCHANGED <<kind, agents, message_senders, senderQ, agentState, agentSid,
                   nextAgent, servedBy, nreq, pc, req, rq, ragent, snapshot, nsent,
                   queue, putLog, stream>>

\* the relay loop converts one item and yields it; a failing conversion
\* yields an error and leaves the loop (rest_server 109-127, grpc_server 127-150)
Relayed(r, item, rest) ==
    /\ queue' = [queue EXCEPT ![r] = rest]
    /\ IF KeyError(item)
       THEN /\ stream' = [stream EXCEPT ![r] = Append(@, ErrorEvent(kind, <<"Error: ">>))]
            /\ pc' = [pc EXCEPT ![r] = "await_task"]
       ELSE /\ stream' = [stream EXCEPT ![r] = Append(@, ToEvent(kind, item))]
            /\ UNCHANGED pc

\* wait_for(response_queue.get(), 0.5) returns an item: rest_server 96,
\* grpc_server 114
RelayGet(r) ==
    /\ pc[r] = "relay"
    /\ queue[r] # <<>>
    /\ Relayed(r, Head(queue[r]), Tail(queue[r]))
    /\ UNCHANGED <<kind, agents, message_senders, senderQ, agentState, agentSid,
                   nextAgent, history, servedBy, nreq, req, rq, ragent, task,
                   snapshot, nsent, putLog>>

\* (mutation of DrainOnTimeout: a finished task ends the loop at once)
NoDrainOnTimeout(r) == FALSE

\* after a timeout with the task done: get_nowait finds an item
\* (rest_server 99-104, grpc_server 117-122)
DrainOnTimeout(r) == queue[r] # <<>>

\* (mutation of AgentTaskDone: the loop never sees the task as done)
AgentTaskNeverDone(r) == FALSE

\* agent_task.done() (rest_server 99, grpc_server 117)
AgentTaskDone(r) == TaskDone(r)

\* wait_for times out: rest_server 97-107, grpc_server 115-125
RelayTimeout(r) ==
    /\ pc[r] = "relay"
    /\ IF AgentTaskDone(r)
       THEN IF DrainOnTimeout(r)
            THEN Relayed(r, Head(queue[r]), Tail(queue[r]))
            ELSE /\ pc' = [pc EXCEPT ![r] = "await_task"]
                 /\ UNCHANGED <<queue, stream>>
       ELSE UNCHANGED <<pc, queue, stream>>
    /\ UNCHANGED <<kind, agents, message_senders, senderQ, agentState, agentSid,
                   nextAgent, history, servedBy, nreq, req, rq, ragent, task,
                   snapshot, nsent, putLog>>

\* await agent_task, then the completion event, or the outer except's error
\* event: rest_server 129-137, grpc_server 152-160
AwaitTask(r) ==
    /\ pc[r] = "await_task"
    /\ TaskDone(r)
    /\ pc' = [pc EXCEPT ![r] = "closed"]
    /\ stream' = [stream EXCEPT ![r] =
                    IF task[r] = "failed"
                    THEN Append(@, ErrorEvent(kind, <<"Error processing message: ">>))
                    ELSE IF kind = "rest" THEN Append(@, CompleteEvent) ELSE @]
    /\ UNCHANGED <<kind, agents, message_senders, senderQ, agentState, agentSid,
                   nextAgent, history, servedBy, nreq, req, rq, ragent, task,
                   snapshot, nsent, queue, putLog>>

\* Telegram: await agent.run_query(...) returns or raises into the handler
\* (telegram_bot 142, 174-180)
HandlerReturns(r) ==
    /\ pc[r] = "awaiting"
    /\ TaskDone(r)
    /\ pc' = [pc EXCEPT ![r] = "closed"]
    /\ stream' = [stream EXCEPT ![r] =
                    IF task[r] = "failed" /\ req[r].type = "PDF"
                    THEN Append(@, TelegramText(<<"Sorry, there was an error">>, "None"))
                    ELSE @]
    /\ UNCHANGED <<kind, agents, message_senders, senderQ, agentState, agentSid,
                   nextAgent, history, servedBy, nreq, req, rq, ragent, task,
                   snapshot, nsent, queue, putLog>>

\* the handler is over and its locals are gone
HandlerGone(r) ==
    /\ pc[r] \in {"closed", "aborted"}
    /\ pc' = [pc EXCEPT ![r] = "idle"]
    /\ req' = [req EXCEPT ![r] = NoReq]
    /\ rq' = [rq EXCEPT ![r] = 0]
    /\ ragent' = [ragent EXCEPT ![r] = 0]
    /\ task' = [task EXCEPT ![r] = "none"]
    /\ snapshot' = [snapshot EXCEPT ![r] = <<>>]
    /\ nsent' = [nsent EXCEPT ![r] = 0]
    /\ queue' = [queue EXCEPT ![r] = <<>>]
    /\ putLog' = [putLog EXCEPT ![r] = <<>>]
    /\ stream' = [stream EXCEPT ![r] = <<>>]
    /\ UNCHANGED <<kind, agents, message_senders, senderQ, agentState, agentSid,
                   nextAgent, history, servedBy, nreq>>

AllIdle == \A r \in Slots : pc[r] = "idle"

\* requests handled one after another: a request arrives only when no other
\* handler is in progress
ReceiveInTurn ==
    \E s \in Sessions, t \in MsgTypes, ex \in BOOLEAN :
        AllIdle /\ Receive(CHOOSE r \in Slots : \A q \in Slots : r <= q, s, t, ex)

\* an exception inside one iteration of the relay loop: the inner handler
\* yields an error and leaves the loop (rest_server 123-127, grpc_server 147-150)
RelayRaises(r) ==
    /\ pc[r] = "relay"
    /\ stream' = [stream EXCEPT ![r] = Append(@, ErrorEvent(kind, <<"Error: ">>))]
    /\ pc' = [pc EXCEPT ![r] = "await_task"]
    /\ UNCHANGED <<kind, agents, message_senders, senderQ, agentState, agentSid,
                   nextAgent, history, servedBy, nreq, req, rq, ragent, task,
                   snapshot, nsent, queue, putLog>>

\* requests that overlap: a request arrives while others are in progress.
\* The Telegram application is built without concurrent_updates
\* (telegram_bot 34), so its handlers run one after another.
ReceiveAny ==
    \E s \in Sessions, t \in MsgTypes, ex \in BOOLEAN :
        /\ kind = "telegram" => AllIdle
        /\ \E r \in Slots :
              /\ pc[r] = "idle"
              /\ \A q \in Slots : pc[q] = "idle" => r <= q
              /\ Receive(r, s, t, ex)

\* Bound of the fair relay specification: sends per run
MaxFairSends == 1

\* a run that sends at most MaxFairSends texts
RunSendsFew(r) == nsent[r] < MaxFairSends /\ RunSendsText(r)

\* overlapping text requests for one session
ReceiveSame ==
    \E r \in Slots :
        /\ pc[r] = "idle"
        /\ \A q \in Slots : pc[q] = "idle" => r <= q
        /\ Receive(r, "s1", "TEXT", TRUE)

\* ---- cleanup_session, cleanup_all, TelegramBot.shutdown ----

\* the orders in which the registered session ids can be visited
KeyOrders ==
    LET registered == {s \in Sessions : agents[s] # 0}
    IN  {ks \in SeqUpTo(Sessions, Cardinality(Sessions)) :
            Len(ks) = Cardinality(registered) /\ Range(ks) = registered}

\* no call of cleanup_session is at its await
NoCleanupAwaiting == \A c \in Cleaners : clPc[c] # "aexit"
\* no call of cleanup_session is pending or in progress
NoCleanupPending == \A c \in Cleaners : clPc[c] \notin {"scheduled", "aexit"}

\* DELETE /api/v1/sessions/{session_id} (rest_server 267-279): an unknown
\* session is answered 404 and nothing changes; for a known one
\* cleanup_session is scheduled as a background task
DeleteSession(s) ==
    /\ kind = "rest"
    /\ allPc = "idle"
    /\ ndel < MaxDeletes
    /\ agents[s] # 0
    /\ ndel' = ndel + 1
    /\ clPc' = [clPc EXCEPT ![ndel + 1] = "scheduled"]
    /\ clSid' = [clSid EXCEPT ![ndel + 1] = s]
    /\ UNCHANGED <<aexits, clLog, allPc, allKeys, agents, message_senders, registryFrame>>

\* cleanup_session up to its await, or to its end for an unregistered
\* session (rest_server 175-177, grpc_server 198-200)
CleanupSessionBegin(c) ==
    LET s == clSid[c] IN
    /\ clPc[c] = "scheduled"
    /\ IF agents[s] # 0
       THEN /\ aexits' = [aexits EXCEPT ![agents[s]] = @ + 1]
            /\ clPc' = [clPc EXCEPT ![c] = "aexit"]
       ELSE /\ clPc' = [clPc EXCEPT ![c] = "done"]
            /\ UNCHANGED aexits
    /\ UNCHANGED <<clSid, clLog, ndel, allPc, allKeys, agents, message_senders, registryFrame>>

\* (mutation of RemovesAfterAexit: the entries are removed only when
\* __aexit__ returned)
RemovesOnlyOnSuccess(ok) == ok

\* the del statements stand after the try/except around __aexit__
\* (rest_server 176-184, grpc_server 199-207)
RemovesAfterAexit(ok) == TRUE

\* __aexit__ returns or raises, and cleanup_session goes on to its end
\* (rest_server 177-184, grpc_server 200-207)
AexitReturns(c, ok) ==
    LET s == clSid[c] IN
    /\ clPc[c] = "aexit"
    /\ clLog' = [clLog EXCEPT ![c] = IF ok THEN "Cleaned up agent"
                                           ELSE "Error cleaning up agent"]
    /\ IF RemovesAfterAexit(ok)
       THEN IF agents[s] # 0
            THEN /\ agents' = [agents EXCEPT ![s] = 0]
                 /\ message_senders' = [message_senders EXCEPT ![s] = 0]
                 /\ clPc' = [clPc EXCEPT ![c] = "done"]
            ELSE \* del self.agents[session_id]: KeyError
                 /\ clPc' = [clPc EXCEPT ![c] = "raised"]
                 /\ UNCHANGED <<agents, message_senders>>
       ELSE /\ clPc' = [clPc EXCEPT ![c] = "done"]
            /\ UNCHANGED <<agents, message_senders>>
    /\ UNCHANGED <<aexits, clSid, ndel, allPc, allKeys, registryFrame>>

\* cleanup_all (rest_server 188, grpc_server 211) takes list(self.agents.keys());
\* TelegramBot.shutdown (telegram_bot 193) starts iterating self.agents.items().
\* The servers shut down after their handlers and background tasks ended.
CleanupAllBegin ==
    \E keys \in KeyOrders :
        /\ allPc = "idle"
        /\ AllIdle
        /\ NoCleanupPending
        /\ allKeys' = keys
        /\ allPc' = "loop"
        /\ UNCHANGED <<aexits, clPc, clSid, clLog, ndel, agents, message_senders, registryFrame>>

\* the next round of the loop, or its end: cleanup_all calls cleanup_session
\* (rest_server 188-190, grpc_server 211-213); shutdown calls __aexit__ on
\* the agent itself and clears self.agents after the loop (telegram_bot 193-200)
CleanupAllStep ==
    /\ allPc = "loop"
    /\ IF allKeys = <<>>
       THEN /\ allPc' = "done"
            /\ agents' = IF kind = "telegram" THEN [s \in Sessions |-> 0] ELSE agents
            /\ UNCHANGED <<aexits, clPc, clSid, allKeys>>
       ELSE IF kind = "telegram"
            THEN /\ aexits' = [aexits EXCEPT ![agents[Head(allKeys)]] = @ + 1]
                 /\ allPc' = "aexit"
                 /\ UNCHANGED <<clPc, clSid, allKeys, agents>>
            ELSE /\ clSid' = [clSid EXCEPT ![0] = Head(allKeys)]
                 /\ clPc' = [clPc EXCEPT ![0] = "scheduled"]
                 /\ allKeys' = Tail(allKeys)
                 /\ allPc' = "in_session"
                 /\ UNCHANGED <<aexits, agents>>
    /\ UNCHANGED <<clLog, ndel, message_senders, registryFrame>>

\* cleanup_session returns to cleanup_all, or its exception leaves cleanup_all
CleanupAllResume ==
    /\ allPc = "in_session"
    /\ clPc[0] \in {"done", "raised"}
    /\ allPc' = IF clPc[0] = "raised" THEN "raised" ELSE "loop"
    /\ clPc' = [clPc EXCEPT ![0] = "idle"]
    /\ UNCHANGED <<aexits, clSid, clLog, ndel, allKeys, agents, message_senders, registryFrame>>

\* shutdown: __aexit__ returns, or raises and is logged (telegram_bot 194-198)
ShutdownAexitReturns(ok) ==
    /\ kind = "telegram"
    /\ allPc = "aexit"
    /\ clLog' = [clLog EXCEPT ![0] = IF ok THEN "Cleaned up agent"
                                           ELSE "Error cleaning up agent"]
    /\ allKeys' = Tail(allKeys)
    /\ allPc' = "loop"
    /\ UNCHANGED <<aexits, clPc, clSid, ndel, agents, message_senders, registryFrame>>

\* a text request arrives while the server is up and nothing else is going on
ReceiveQuiet ==
    \E s \in Sessions :
        /\ allPc = "idle"
        /\ AllIdle
        /\ NoCleanupAwaiting
        /\ Receive(CHOOSE r \in Slots : \A q \in Slots : r <= q, s, "TEXT", TRUE)

\* a DELETE request arrives while no request is being served
DeleteQuiet == \E s \in Sessions : AllIdle /\ DeleteSession(s)

\* a pending cleanup_session runs while no other one is at its await
CleanupSessionInTurn(c) == AllIdle /\ NoCleanupAwaiting /\ CleanupSessionBegin(c)

\* ---- claims about the servers ----

\* the agents constructed for session s whose start-up has not failed
LiveAgentsFor(s) ==
    {a \in AgentIds : agentSid[a] = s /\ agentState[a] \in {"created", "started"}}

\* C1: with requests handled one after another, the first request for a
\* session id creates and starts one ConversationAgent, every later request
\* with that id is served by the same instance without creating another, and
\* two different ids are never served by the same agent.
C1_OneAgentPerSession ==
    /\ \A s \in Sessions :
          /\ Cardinality(servedBy[s]) <= 1
          /\ Cardinality(LiveAgentsFor(s)) <= 1
          /\ servedBy[s] # {} =>
                /\ servedBy[s] = {agents[s]}
                /\ agentState[agents[s]] = "started"
                /\ LiveAgentsFor(s) = {agents[s]}
    /\ \A s, t \in Sessions : s # t => servedBy[s] \cap servedBy[t] = {}
    /\ \A r \in Slots :
          pc[r] \in {"have_agent", "relay", "await_task", "awaiting"} =>
              /\ ragent[r] = agents[req[r].sid]
              /\ ragent[r] \in servedBy[req[r].sid]

\* the second request for a session id has been given the agent that the
\* first one created, which has a completed turn behind it
C1_Witness ==
    \E r \in Slots :
        /\ nreq = 2
        /\ pc[r] = "have_agent"
        /\ nextAgent = 1
        /\ ragent[r] = 1
        /\ history[1] # <<>>

\* C2: run_query starts each run with the message_history the previous
\* completed run stored and, when the run ends with a result, stores the
\* run's full message list: over the completed queries of one agent the
\* history only ever grows by appending, and is never reset or truncated.
C2_HistoryGrowsByAppending ==
    [][/\ \A a \in AgentIds : IsPrefix(history[a], history'[a])
       /\ \A r \in Slots :
             /\ (task[r] = "created" /\ task'[r] = "running") =>
                   snapshot'[r] = history[ragent[r]]
             /\ (task[r] = "running" /\ task'[r] = "done") =>
                   /\ snapshot[r] = history[ragent[r]]
                   /\ IsPrefix(snapshot[r], history'[ragent[r]])
                   /\ Len(history'[ragent[r]]) > Len(history[ragent[r]])
             /\ (task[r] = "running" /\ task'[r] \in {"done_noresult", "failed"}) =>
                   history' = history]_vars

\* an agent has completed two turns with different queries
C2_Witness ==
    \E a \in AgentIds :
        /\ Len(history[a]) = 4
        /\ history[a][1] # history[a][3]

\* the events of a sequence of queue items
Events(items) == [i \in 1..Len(items) |-> ToEvent(kind, items[i])]

\* what ends the stream of handler r
Terminal(r) ==
    IF task[r] = "failed" THEN <<ErrorEvent(kind, <<"Error processing message: ">>)>>
    ELSE IF kind = "rest" THEN <<CompleteEvent>> ELSE <<>>

\* C3: send_message / SendMessage yield every item put on the request's
\* response queue, once each and in the order of the puts, and all of them
\* before the stream ends (before 'complete' in REST), also the items that
\* were put just before the agent task finished.
C3_RelayYieldsEveryItemInOrder ==
    \A r \in Slots :
        kind \in QueueServers =>
            /\ pc[r] \in {"relay", "await_task"} =>
                  stream[r] \o Events(queue[r]) = Events(putLog[r])
            /\ pc[r] = "await_task" => queue[r] = <<>>
            /\ pc[r] = "closed" =>
                  /\ queue[r] = <<>>
                  /\ stream[r] = Events(putLog[r]) \o Terminal(r)

\* a REST stream that ended with 'complete' after two different items
C3_Witness ==
    \E r \in Slots :
        /\ kind = "rest"
        /\ pc[r] = "closed"
        /\ Len(putLog[r]) = 2
        /\ putLog[r][1] # putLog[r][2]
        /\ Len(stream[r]) = 3
        /\ stream[r][3] = CompleteEvent

SeqNext ==
    \/ ReceiveInTurn /\ UNCHANGED notServerVars
    \/ \E r \in Slots, c \in BOOLEAN : GetOrCreateAgent(r, c) /\ UNCHANGED notServerVars
    \/ \E r \in Slots, ok \in BOOLEAN : AenterReturns(r, ok) /\ UNCHANGED notServerVars
    \/ \E r \in Slots : StartTask(r) /\ UNCHANGED notServerVars
    \/ \E r \in Slots : RunStart(r) /\ UNCHANGED notServerVars
    \/ \E r \in Slots : RunSendsText(r) /\ UNCHANGED notServerVars
    \/ \E r \in Slots : RunSendsImage(r) /\ UNCHANGED notServerVars
    \/ \E r \in Slots, o \in {"done", "done_noresult", "failed"} :
          RunFinish(r, o) /\ UNCHANGED notServerVars
    \/ \E r \in Slots : RelayGet(r) /\ UNCHANGED notServerVars
    \/ \E r \in Slots : RelayTimeout(r) /\ UNCHANGED notServerVars
    \/ \E r \in Slots : AwaitTask(r) /\ UNCHANGED notServerVars
    \/ \E r \in Slots : HandlerReturns(r) /\ UNCHANGED notServerVars
    \/ \E r \in Slots : HandlerGone(r) /\ UNCHANGED notServerVars

\* the positions of the terminal events of a REST stream
TerminalEvents(r) ==
    {i \in 1..Len(stream[r]) : stream[r][i].event \in {"complete", "error"}}

\* C11: every stream produced by RestServer.send_message ends with exactly
\* one terminal event and nothing after it: 'complete' when the agent task
\* finished without an exception and no streaming error occurred, 'error'
\* otherwise; 'complete' is never emitted in a stream that carries an 'error'.
C11_StreamEndsWithOneTerminalEvent ==
    \A r \in Slots :
        (kind = "rest" /\ pc[r] \in {"closed", "aborted"}) =>
            /\ TerminalEvents(r) = {Len(stream[r])}
            /\ stream[r][Len(stream[r])].event = "complete" <=> task[r] # "failed"

\* C12: messages the agent emits while it works on one request are delivered
\* only on that request's response stream, also when a second request for
\* the same session arrives while the first is running: each item a run
\* sends is put on the queue of the run's own request, and on no other.
C12_RunSendsToOwnRequest ==
    [][\A r \in Slots :
          (kind \in QueueServers /\ task[r] = "running" /\ nsent'[r] = nsent[r] + 1) =>
              /\ Len(putLog'[r]) = Len(putLog[r]) + 1
              /\ \A q \in Slots \ {r} : putLog'[q] = putLog[q]]_vars

\* C13: when two requests for a not-yet-registered session id overlap, only
\* one ConversationAgent is created and started for that id, both requests
\* are served by it, and no started agent is left unregistered.
C13_OverlappingCreationMakesOneAgent ==
    /\ \A s \in Sessions :
          Cardinality({a \in AgentIds : agentSid[a] = s /\ agentState[a] # "failed"}) <= 1
    /\ \A a \in AgentIds : agentState[a] = "started" => agents[agentSid[a]] = a
    /\ \A r, q \in Slots :
          (/\ pc[r] \in {"have_agent", "relay", "await_task", "closed"}
           /\ pc[q] \in {"have_agent", "relay", "await_task", "closed"}
           /\ req[r].sid = req[q].sid) => ragent[r] = ragent[q]

\* the turns of agent a that ended with a result and whose handlers are
\* still there
CompletedTurns(a) == {r \in Slots : ragent[r] = a /\ task[r] = "done"}

\* C15: when two queries run on the same ConversationAgent at overlapping
\* times, after both have completed the agent's message_history holds the
\* messages of both turns: neither history update overwrites the other's.
C15_OverlappingTurnsBothInHistory ==
    \A a \in AgentIds :
        \A r \in CompletedTurns(a) :
            \E i \in 1..Len(history[a]) :
                /\ history[a][i] = NewMessages(BuildQuery(req[r].type, req[r].fileExists))[1]
                /\ Len(history[a]) >= 2 * Cardinality(CompletedTurns(a))

\* C16: if creating or starting the session's agent fails inside
\* send_message / SendMessage, the client still receives an error event
\* (REST) or error response (gRPC), and no agent is registered for that
\* session id.
C16_CreationFailureIsReported ==
    \A r \in Slots :
        (kind \in QueueServers /\ pc[r] = "aborted") =>
            /\ agents[req[r].sid] = 0
            /\ Len(stream[r]) = 1
            /\ \/ kind = "rest" /\ stream[r][1].event = "error"
               \/ kind = "grpc" /\ "text" \in DOMAIN stream[r][1]

\* C14: if the agent task started for a request finishes (normally or with
\* an exception), the relay loop of send_message / SendMessage eventually
\* exits and the response stream ends; and the stream never ends while the
\* agent task is still running, however long the queue stays empty.
C14_RelayEndsAfterTaskAndNotBefore ==
    /\ [](\A r \in Slots : pc[r] = "closed" => TaskDone(r))
    /\ \A r \in Slots :
          (pc[r] \in {"relay", "await_task"} /\ TaskDone(r)) ~> (pc[r] = "closed")

\* two overlapping requests have ended; the queue of one stayed empty to the
\* end while the other one received items
C14_Witness ==
    \E r, q \in Slots :
        /\ pc[r] = "closed" /\ pc[q] = "closed"
        /\ TaskDone(r) /\ TaskDone(q)
        /\ nsent[r] > 0
        /\ putLog[r] = <<>>
        /\ putLog[q] # <<>>

\* C17: cleanup_session(s) for a registered session calls the agent's
\* __aexit__ and then removes s from both agents and message_senders even
\* when __aexit__ raises; it leaves the entries of every other session
\* unchanged; for an unregistered s it changes nothing and does not raise.
C17_CleanupSessionRemovesOnlyItsSession ==
    [][\A c \in Cleaners :
          LET s == clSid[c] IN
          /\ clPc'[c] # "raised"
          /\ clPc[c] = "scheduled" /\ clPc'[c] # "scheduled" =>
                /\ agents' = agents /\ message_senders' = message_senders
                /\ IF agents[s] # 0
                   THEN /\ clPc'[c] = "aexit"
                        /\ aexits' = [aexits EXCEPT ![agents[s]] = @ + 1]
                   ELSE /\ clPc'[c] = "done"
                        /\ aexits' = aexits
          /\ clPc[c] = "aexit" /\ clPc'[c] # "aexit" =>
                /\ clPc'[c] = "done"
                /\ aexits' = aexits
                /\ agents' = [agents EXCEPT ![s] = 0]
                /\ message_senders' = [message_senders EXCEPT ![s] = 0]]_vars

\* one cleanup_session removed its session although __aexit__ raised and left
\* the other session registered; another one found its session unregistered
C17_Witness ==
    \E c, d \in Cleaners :
        /\ clPc[c] = "done" /\ clLog[c] = "Error cleaning up agent"
        /\ agents[clSid[c]] = 0 /\ message_senders[clSid[c]] = 0
        /\ \E t \in Sessions \ {clSid[c]} : agents[t] # 0 /\ message_senders[t] # 0
        /\ clPc[d] = "done" /\ clLog[d] = "none"

\* C18: each agent's __aexit__ is invoked at most once over the life of the
\* server and cleanup_session never raises, even when two cleanup_session
\* calls for the same session id interleave at the await of __aexit__.
C18_AexitOnceAndCleanupNeverRaises ==
    /\ \A a \in AgentIds : aexits[a] <= 1
    /\ \A c \in Cleaners : clPc[c] # "raised"
    /\ allPc # "raised"

\* C19: after cleanup_all (REST, gRPC) or TelegramBot.shutdown completes, no
\* agent remains registered and __aexit__ has been invoked on every agent
\* that had been created, even if some of the __aexit__ calls raised.
C19_ShutdownExitsEveryAgent ==
    allPc = "done" =>
        /\ \A s \in Sessions : agents[s] = 0
        /\ \A a \in AgentIds : agentState[a] # "none" => aexits[a] >= 1

\* the servers with requests one after another and a relay loop whose
\* iterations can raise
StreamFaultsNext ==
    \/ SeqNext
    \/ \E r \in Slots : RelayRaises(r) /\ UNCHANGED notServerVars

\* the streaming servers with overlapping requests whose runs send texts
ConcInit == (\E k \in QueueServers : ServerStart(k)) /\ SenderIdle /\ SumIdle /\ BrowserIdle /\ ConfigIdle /\ SnapIdle /\ CleanupIdle
ConcNext ==
    \/ ReceiveAny /\ UNCHANGED notServerVars
    \/ \E r \in Slots, c \in BOOLEAN : GetOrCreateAgent(r, c) /\ UNCHANGED notServerVars
    \/ \E r \in Slots, ok \in BOOLEAN : AenterReturns(r, ok) /\ UNCHANGED notServerVars
    \/ \E r \in Slots : StartTask(r) /\ UNCHANGED notServerVars
    \/ \E r \in Slots : RunStart(r) /\ UNCHANGED notServerVars
    \/ \E r \in Slots : RunSendsText(r) /\ UNCHANGED notServerVars
    \/ \E r \in Slots, o \in {"done", "done_noresult", "failed"} :
          RunFinish(r, o) /\ UNCHANGED notServerVars
    \/ \E r \in Slots : RelayGet(r) /\ UNCHANGED notServerVars
    \/ \E r \in Slots : RelayTimeout(r) /\ UNCHANGED notServerVars
    \/ \E r \in Slots : AwaitTask(r) /\ UNCHANGED notServerVars

\* the streaming servers with overlapping requests of one session, with a
\* relay loop that keeps running: every wait_for returns or times out
RelayFairNext ==
    \/ ReceiveSame /\ UNCHANGED notServerVars
    \/ \E r \in Slots, c \in BOOLEAN : GetOrCreateAgent(r, c) /\ UNCHANGED notServerVars
    \/ \E r \in Slots, ok \in BOOLEAN : AenterReturns(r, ok) /\ UNCHANGED notServerVars
    \/ \E r \in Slots : StartTask(r) /\ UNCHANGED notServerVars
    \/ \E r \in Slots : RunStart(r) /\ UNCHANGED notServerVars
    \/ \E r \in Slots : RunSendsFew(r) /\ UNCHANGED notServerVars
    \/ \E r \in Slots, o \in {"done", "done_noresult", "failed"} :
          RunFinish(r, o) /\ UNCHANGED notServerVars
    \/ \E r \in Slots : RelayGet(r) /\ UNCHANGED notServerVars
    \/ \E r \in Slots : RelayTimeout(r) /\ UNCHANGED notServerVars
    \/ \E r \in Slots : RelayRaises(r) /\ UNCHANGED notServerVars
    \/ \E r \in Slots : AwaitTask(r) /\ UNCHANGED notServerVars

RelayFairness ==
    \A r \in Slots :
        /\ WF_vars(RelayGet(r) /\ UNCHANGED notServerVars)
        /\ WF_vars(RelayTimeout(r) /\ UNCHANGED notServerVars)
        /\ WF_vars(AwaitTask(r) /\ UNCHANGED notServerVars)

\* the servers with requests, DELETE requests and the shutdown, where the
\* calls of cleanup_session run one after another
CleanupNext ==
    \/ ReceiveQuiet /\ UNCHANGED notServerVars
    \/ \E r \in Slots, c \in BOOLEAN : GetOrCreateAgent(r, c) /\ UNCHANGED notServerVars
    \/ \E r \in Slots, ok \in BOOLEAN : AenterReturns(r, ok) /\ UNCHANGED notServerVars
    \/ \E r \in Slots : StartTask(r) /\ UNCHANGED notServerVars
    \/ \E r \in Slots : RunStart(r) /\ UNCHANGED notServerVars
    \/ \E r \in Slots, o \in {"done", "failed"} : RunFinish(r, o) /\ UNCHANGED notServerVars
    \/ \E r \in Slots : RelayTimeout(r) /\ UNCHANGED notServerVars
    \/ \E r \in Slots : AwaitTask(r) /\ UNCHANGED notServerVars
    \/ \E r \in Slots : HandlerReturns(r) /\ UNCHANGED notServerVars
    \/ \E r \in Slots : HandlerGone(r) /\ UNCHANGED notServerVars
    \/ DeleteQuiet /\ UNCHANGED otherVars
    \/ \E c \in Cleaners : CleanupSessionInTurn(c) /\ UNCHANGED otherVars
    \/ \E c \in Cleaners, ok \in BOOLEAN : AexitReturns(c, ok) /\ UNCHANGED otherVars
    \/ CleanupAllBegin /\ UNCHANGED otherVars
    \/ CleanupAllStep /\ UNCHANGED otherVars
    \/ CleanupAllResume /\ UNCHANGED otherVars
    \/ \E ok \in BOOLEAN : ShutdownAexitReturns(ok) /\ UNCHANGED otherVars

\* the REST server where calls of cleanup_session overlap
CleanupConcInit == ServerStart("rest") /\ SenderIdle /\ SumIdle /\ BrowserIdle /\ ConfigIdle /\ SnapIdle /\ CleanupIdle
CleanupConcNext ==
    \/ ReceiveQuiet /\ UNCHANGED notServerVars
    \/ \E r \in Slots, c \in BOOLEAN : GetOrCreateAgent(r, c) /\ UNCHANGED notServerVars
    \/ \E r \in Slots, ok \in BOOLEAN : AenterReturns(r, ok) /\ UNCHANGED notServerVars
    \/ \E r \in Slots : StartTask(r) /\ UNCHANGED notServerVars
    \/ \E r \in Slots : RunStart(r) /\ UNCHANGED notServerVars
    \/ \E r \in Slots, o \in {"done", "failed"} : RunFinish(r, o) /\ UNCHANGED notServerVars
    \/ \E r \in Slots : RelayTimeout(r) /\ UNCHANGED notServerVars
    \/ \E r \in Slots : AwaitTask(r) /\ UNCHANGED notServerVars
    \/ \E r \in Slots : HandlerGone(r) /\ UNCHANGED notServerVars
    \/ DeleteQuiet /\ UNCHANGED otherVars
    \/ \E c \in Cleaners : CleanupSessionBegin(c) /\ UNCHANGED otherVars
    \/ \E c \in Cleaners, ok \in BOOLEAN : AexitReturns(c, ok) /\ UNCHANGED otherVars
    \/ CleanupAllBegin /\ UNCHANGED otherVars
    \/ CleanupAllStep /\ UNCHANGED otherVars
    \/ CleanupAllResume /\ UNCHANGED otherVars

SenderOnlyInit == SenderInit(FALSE) /\ SumIdle /\ BrowserIdle /\ ConfigIdle /\ SnapIdle /\ CleanupIdle /\ ServerIdle
SenderFaultsInit == SenderInit(TRUE) /\ SumIdle /\ BrowserIdle /\ ConfigIdle /\ SnapIdle /\ CleanupIdle /\ ServerIdle
SenderOnlyNext ==
    \/ CallSendText /\ UNCHANGED notSenderVars
    \/ CallSendImage /\ UNCHANGED notSenderVars
    \/ CallToolSendMessage /\ UNCHANGED notSenderVars
    \/ CallToolSendImage /\ UNCHANGED notSenderVars
SeqInit == ServerInit /\ SenderIdle /\ SumIdle /\ BrowserIdle /\ ConfigIdle /\ SnapIdle /\ CleanupIdle

SummarizerInit == SumIdle /\ SenderIdle /\ BrowserIdle /\ ConfigIdle /\ SnapIdle /\ CleanupIdle /\ ServerIdle
SummarizerNext == SummarizedTurn /\ UNCHANGED notSumVars

BrowserInit == BrowserIdle /\ SenderIdle /\ SumIdle /\ ConfigIdle /\ SnapIdle /\ CleanupIdle /\ ServerIdle
BrowserNext ==
    \/ ExecuteBrowserTask /\ UNCHANGED notBrowserVars
    \/ ExecuteGoalStep /\ UNCHANGED notBrowserVars
    \/ BrowserRunEnds /\ UNCHANGED notBrowserVars

ConfigInit == ConfigIdle /\ SenderIdle /\ SumIdle /\ BrowserIdle /\ SnapIdle /\ CleanupIdle /\ ServerIdle
ConfigNext ==
    \/ CallGetModel /\ UNCHANGED notConfigVars
    \/ BuildAgentConfig /\ UNCHANGED notConfigVars
    \/ BuildBrowserAgentConfig /\ UNCHANGED notConfigVars

SnapInit ==
    /\ \E v \in SnapshotVersions : SnapStart(v)
    /\ SenderIdle /\ SumIdle /\ BrowserIdle /\ ConfigIdle /\ CleanupIdle /\ ServerIdle
SnapNext ==
    \/ CapturePageSnapshot /\ UNCHANGED notSnapVars
    \/ \E ok \in BOOLEAN : TakeScreenshot(ok) /\ UNCHANGED notSnapVars
    \/ \E ok \in BOOLEAN : LogScreenshot(ok) /\ UNCHANGED notSnapVars
    \/ StartAnalysis /\ UNCHANGED notSnapVars
    \/ \E o \in AnalysisOutcomes : AnalysisEnds(o) /\ UNCHANGED notSnapVars

SpecSender == SenderOnlyInit /\ [][SenderOnlyNext]_vars
SpecSenderFaults == SenderFaultsInit /\ [][SenderOnlyNext]_vars
SpecSeq == SeqInit /\ [][SeqNext]_vars
SpecStreamFaults == SeqInit /\ [][StreamFaultsNext]_vars
SpecConc == ConcInit /\ [][ConcNext]_vars
SpecCleanup == SeqInit /\ [][CleanupNext]_vars
SpecCleanupConc == CleanupConcInit /\ [][CleanupConcNext]_vars
SpecSnapshot == SnapInit /\ [][SnapNext]_vars
SpecRelayFair == ConcInit /\ [][RelayFairNext]_vars /\ RelayFairness
SpecSummarizer == SummarizerInit /\ [][SummarizerNext]_vars
SpecBrowser == BrowserInit /\ [][BrowserNext]_vars
SpecConfig == ConfigInit /\ [][ConfigNext]_vars
====
